---- MODULE Spec2Model ----
(***************************************************************************)
(* Model of the microlensing magnification engine of src/main.py:          *)
(* calculate_magnification_point_lens and the setup and frame loop of      *)
(* run_simulation.                                                         *)
(*                                                                         *)
(* The program computes in binary floating point.  Numbers are modelled    *)
(* as binary floating-point values with a MantBits-bit significand,        *)
(* round-to-nearest-even, signed infinities and NaN (the exponent is not   *)
(* bounded, so overflow to infinity and underflow to zero are not          *)
(* modelled).  Every arithmetic operator of the source is translated to    *)
(* the corresponding rounded operation.                                    *)
(***************************************************************************)
EXTENDS Integers, Sequences, FiniteSets, TLC

\* significand width of the modelled floating-point format
MantBits == 10

\* fraction bits of the fixed-point kernel used inside cos and sin
FixBits == MantBits + 3

MLo == 2^(MantBits - 1)
MHi == 2^MantBits

(***************************************************************************)
(* Floating-point values.                                                  *)
(***************************************************************************)
Fin(s, m, e) == [k |-> "fin", s |-> s, m |-> m, e |-> e]
Zero == Fin(1, 0, 0)
NaN == [k |-> "nan", s |-> 1, m |-> 0, e |-> 0]
Inf(s) == [k |-> "inf", s |-> s, m |-> 0, e |-> 0]

IsNaN(a) == a.k = "nan"
IsInf(a) == a.k = "inf"
IsFin(a) == a.k = "fin"
IsZero(a) == a.k = "fin" /\ a.m = 0

RECURSIVE BitLen(_)
BitLen(n) == IF n = 0 THEN 0 ELSE 1 + BitLen(n \div 2)

\* s * m * 2^e (plus a positive fraction below one unit of m when sticky),
\* rounded to MantBits significant bits, ties to even
Round(s, m, e, sticky) ==
  IF m = 0 THEN Zero
  ELSE LET b == BitLen(m) IN
       IF b <= MantBits
       THEN Fin(s, m * 2^(MantBits - b), e - (MantBits - b))
       ELSE LET d == b - MantBits
                q == m \div 2^d
                r == m % 2^d
                half == 2^(d - 1)
                up == r > half \/ (r = half /\ (sticky \/ q % 2 = 1))
                q2 == IF up THEN q + 1 ELSE q
            IN IF q2 = MHi THEN Fin(s, MLo, e + d + 1) ELSE Fin(s, q2, e + d)

FromInt(n) == IF n < 0 THEN Round(-1, -n, 0, FALSE) ELSE Round(1, n, 0, FALSE)

FNeg(a) == IF IsNaN(a) \/ IsZero(a) THEN a ELSE [a EXCEPT !.s = -a.s]
FAbs(a) == IF IsNaN(a) THEN a ELSE [a EXCEPT !.s = 1]

FMul(a, b) ==
  IF IsNaN(a) \/ IsNaN(b) THEN NaN
  ELSE IF IsInf(a) \/ IsInf(b)
       THEN IF IsZero(a) \/ IsZero(b) THEN NaN ELSE Inf(a.s * b.s)
  ELSE Round(a.s * b.s, a.m * b.m, a.e + b.e, FALSE)

FDiv(a, b) ==
  IF IsNaN(a) \/ IsNaN(b) THEN NaN
  ELSE IF IsInf(a) THEN (IF IsInf(b) THEN NaN ELSE Inf(a.s * b.s))
  ELSE IF IsInf(b) THEN Zero
  ELSE IF IsZero(b) THEN (IF IsZero(a) THEN NaN ELSE Inf(a.s))
  ELSE IF IsZero(a) THEN Zero
  ELSE LET n == a.m * 2^(MantBits + 2)
       IN Round(a.s * b.s, n \div b.m, a.e - b.e - (MantBits + 2), n % b.m # 0)

FAdd(a, b) ==
  IF IsNaN(a) \/ IsNaN(b) THEN NaN
  ELSE IF IsInf(a) THEN (IF IsInf(b) /\ b.s # a.s THEN NaN ELSE a)
  ELSE IF IsInf(b) THEN b
  ELSE IF IsZero(a) THEN b
  ELSE IF IsZero(b) THEN a
  ELSE LET hi == IF a.e >= b.e THEN a ELSE b
           lo == IF a.e >= b.e THEN b ELSE a
           diff == hi.e - lo.e
       IN IF diff > MantBits + 2 THEN hi
          ELSE LET sum == hi.s * hi.m * 2^diff + lo.s * lo.m
               IN IF sum < 0 THEN Round(-1, -sum, lo.e, FALSE)
                  ELSE Round(1, sum, lo.e, FALSE)

FSub(a, b) == FAdd(a, FNeg(b))

RECURSIVE ISqrtBetween(_, _, _)
ISqrtBetween(n, lo, hi) ==
  IF lo >= hi THEN lo
  ELSE LET mid == (lo + hi + 1) \div 2
       IN IF mid * mid <= n THEN ISqrtBetween(n, mid, hi)
          ELSE ISqrtBetween(n, lo, mid - 1)

ISqrt(n) == ISqrtBetween(n, 0, 2^(MantBits + 2))

FSqrt(a) ==
  IF IsNaN(a) THEN NaN
  ELSE IF IsZero(a) THEN Zero
  ELSE IF a.s < 0 THEN NaN
  ELSE IF IsInf(a) THEN a
  ELSE LET sh == IF (a.e - (MantBits + 2)) % 2 = 0 THEN MantBits + 2
                 ELSE MantBits + 3
           n == a.m * 2^sh
           q == ISqrt(n)
       IN Round(1, q, (a.e - sh) \div 2, q * q # n)

\* a < b on floats: every comparison with NaN is false
FLt(a, b) ==
  IF IsNaN(a) \/ IsNaN(b) THEN FALSE
  ELSE IF IsInf(a) THEN a.s < 0 /\ ~(IsInf(b) /\ b.s < 0)
  ELSE IF IsInf(b) THEN b.s > 0
  ELSE IF IsZero(a) THEN b.m # 0 /\ b.s > 0
  ELSE IF IsZero(b) THEN a.s < 0
  ELSE IF a.s # b.s THEN a.s < b.s
  ELSE IF a.s > 0 THEN a.e < b.e \/ (a.e = b.e /\ a.m < b.m)
  ELSE b.e < a.e \/ (a.e = b.e /\ b.m < a.m)

FEq(a, b) == ~IsNaN(a) /\ ~IsNaN(b) /\ a = b
FLe(a, b) == FLt(a, b) \/ FEq(a, b)

\* the builtin min(a, b) of Python: b when b < a, otherwise a
PyMin(a, b) == IF FLt(b, a) THEN b ELSE a

\* a decimal literal n / d
FRat(n, d) == FDiv(FromInt(n), FromInt(d))

RECURSIVE Pow10(_)
Pow10(k) ==
  IF k = 0 THEN FromInt(1)
  ELSE IF k % 2 = 1 THEN FMul(Pow10(k - 1), FromInt(10))
  ELSE LET h == Pow10(k \div 2) IN FMul(h, h)

\* a decimal literal n * 10^k
Lit(n, k) == IF k >= 0 THEN FMul(FromInt(n), Pow10(k))
             ELSE FDiv(FromInt(n), Pow10(-k))

(***************************************************************************)
(* numpy.cos and numpy.sin: the argument is reduced modulo 2*pi and the    *)
(* Taylor polynomial is evaluated in fixed point with FixBits fraction     *)
(* bits; the result is rounded to a floating-point value.                  *)
(***************************************************************************)
OneFx == 2^FixBits
PiFx == (355 * OneFx) \div 113
TwoPiFx == 2 * PiFx
HalfPiFx == PiFx \div 2

MulFx(a, b) == (a * b) \div OneFx

\* cos on [0, pi/2]
CosQ(y) ==
  LET y2 == MulFx(y, y)
      t4 == OneFx - y2 \div 56
      t3 == OneFx - MulFx(y2 \div 30, t4)
      t2 == OneFx - MulFx(y2 \div 12, t3)
  IN OneFx - MulFx(y2 \div 2, t2)

\* sin on [0, pi/2]
SinQ(y) ==
  LET y2 == MulFx(y, y)
      t4 == OneFx - y2 \div 72
      t3 == OneFx - MulFx(y2 \div 42, t4)
      t2 == OneFx - MulFx(y2 \div 20, t3)
      t1 == OneFx - MulFx(y2 \div 6, t2)
  IN MulFx(y, t1)

CosFx(t) ==
  LET r0 == t % TwoPiFx
      r == IF r0 > PiFx THEN TwoPiFx - r0 ELSE r0
  IN IF r > HalfPiFx THEN -CosQ(PiFx - r) ELSE CosQ(r)

SinFx(t) ==
  LET r0 == t % TwoPiFx
      h == IF r0 > PiFx THEN r0 - PiFx ELSE r0
      v == IF h > HalfPiFx THEN SinQ(PiFx - h) ELSE SinQ(h)
  IN IF r0 > PiFx THEN -v ELSE v

\* |a| as a fixed-point integer, rounded to nearest
ToFixed(a) ==
  LET sh == a.e + FixBits
  IN IF sh >= 0 THEN a.m * 2^sh
     ELSE IF -sh > MantBits + 1 THEN 0
     ELSE (a.m + 2^(-sh - 1)) \div 2^(-sh)

FromFixed(n) == IF n < 0 THEN Round(-1, -n, -FixBits, FALSE)
                ELSE Round(1, n, -FixBits, FALSE)

FCos(a) == IF ~IsFin(a) THEN NaN ELSE FromFixed(CosFx(ToFixed(a)))

FSin(a) ==
  IF ~IsFin(a) THEN NaN
  ELSE IF a.s < 0 THEN FromFixed(-SinFx(ToFixed(a)))
  ELSE FromFixed(SinFx(ToFixed(a)))

\* numpy.pi
Pi == FRat(355, 113)

(***************************************************************************)
(* Physical constants (src/main.py lines 10-14).                           *)
(***************************************************************************)
G == Lit(6674, -14)
c == FromInt(300000000)
AU_TO_M == Lit(1495978707, 2)
LY_TO_M == Lit(9461, 12)

(***************************************************************************)
(* calculate_magnification_point_lens                                      *)
(***************************************************************************)
\* the literals of the function
LensFloor == FRat(1, 10000)
LensCeiling == FromInt(200)

\* ret: the returned value; divided: whether the division by u was executed
point_lens_floor6(u) ==
  IF FLt(u, FRat(1, 1000000))
  THEN [ret |-> LensCeiling, divided |-> FALSE]
  ELSE [ret |-> FDiv(FAdd(FMul(u, u), FromInt(2)),
                     FMul(u, FSqrt(FAdd(FMul(u, u), FromInt(4))))),
        divided |-> TRUE]

point_lens_no_u(u) ==
  IF FLt(u, LensFloor)
  THEN [ret |-> LensCeiling, divided |-> FALSE]
  ELSE [ret |-> FDiv(FAdd(FMul(u, u), FromInt(2)),
                     FSqrt(FAdd(FMul(u, u), FromInt(4)))),
        divided |-> TRUE]

point_lens(u) ==
  IF FLt(u, LensFloor)
  THEN [ret |-> LensCeiling, divided |-> FALSE]
  ELSE [ret |-> FDiv(FAdd(FMul(u, u), FromInt(2)),
                     FMul(u, FSqrt(FAdd(FMul(u, u), FromInt(4))))),
        divided |-> TRUE]

calculate_magnification_point_lens(u) == point_lens(u).ret

(***************************************************************************)
(* State.                                                                  *)
(*   pc     "setup", "loop" or "done" for a call of run_simulation;        *)
(*          "lens_call" / "lens_ret" for a call of                         *)
(*          calculate_magnification_point_lens on its own                  *)
(*   cfg    the arguments of run_simulation                                *)
(*   env    the locals assigned before the frame loop                      *)
(*   i      the number of completed iterations (the next frame index)      *)
(*   cur    the locals of the last completed iteration                     *)
(*   magnification_data_list   the magnification series                    *)
(*   graph  the two arrays handed to make_magnification_graph              *)
(*   probe  the locals of one frame index evaluated out of loop order      *)
(*   lens_u, lens_out   arguments and results of two standalone calls of   *)
(*          calculate_magnification_point_lens                             *)
(***************************************************************************)
VARIABLES pc, cfg, env, i, cur, magnification_data_list, graph, probe,
          lens_u, lens_out

vars == <<pc, cfg, env, i, cur, magnification_data_list, graph, probe,
          lens_u, lens_out>>

None == [k |-> "none"]

num_frames == 600

sim_scale_factor == FRat(5, 2)
GlobalCeiling == FromInt(500)

\* masses and orbit distances passed to run_simulation
BhMasses == {Lit(1, 36), Lit(1, 30), Zero}
StarMasses == {Lit(1, 30), FNeg(Lit(1, 30))}
PlanetMasses == {Lit(1, 25)}
Distances == {<<FMul(FromInt(500), AU_TO_M), FMul(FromInt(1), AU_TO_M)>>,
              <<Zero, Zero>>}

Configs ==
  {[bh_mass_kg |-> mb, star_mass_kg |-> ms, planet_mass_kg |-> mp,
    bh_star_distance_m |-> d[1], planet_star_distance_m |-> d[2]] :
     mb \in BhMasses, ms \in StarMasses, mp \in PlanetMasses, d \in Distances}

\* frame indices evaluated out of loop order
ProbeFrames == {0, 300}

(***************************************************************************)
(* run_simulation, lines 138-202: the locals computed before the loop.     *)
(***************************************************************************)
D_L_m == FMul(FromInt(5000), LY_TO_M)
D_LS_m == FMul(FromInt(5000), LY_TO_M)
D_S_m == FMul(FromInt(5000 + 5000), LY_TO_M)

einstein_radius(mass) ==
  FSqrt(FMul(FDiv(FMul(FMul(FromInt(4), G), mass), FMul(c, c)),
             FDiv(FMul(D_L_m, D_LS_m), D_S_m)))

sim_unit_by_range(r_bh) == FDiv(r_bh, FMul(sim_scale_factor, FromInt(2)))

sim_unit_m_per_plotly_unit(r_bh) == FDiv(r_bh, sim_scale_factor)

angular_speed_half(cycles) ==
  FDiv(FMul(Pi, FromInt(cycles)), FromInt(num_frames))

angular_speed(cycles) ==
  FDiv(FMul(FMul(FromInt(2), Pi), FromInt(cycles)), FromInt(num_frames))

setup(cf) ==
  LET r_bh == einstein_radius(cf.bh_mass_kg)
      range == FMul(sim_scale_factor, FromInt(2))
      start == FMul(FNeg(range), FRat(1, 2))
      stop == FMul(range, FRat(1, 2))
  IN [einstein_radius_bh_m |-> r_bh,
      einstein_radius_star_m |-> einstein_radius(cf.star_mass_kg),
      einstein_radius_planet_m |-> einstein_radius(cf.planet_mass_kg),
      sim_unit_m_per_plotly_unit |-> sim_unit_m_per_plotly_unit(r_bh),
      sim_range_plotly_units |-> range,
      source_y |-> FMul(FNeg(range), FRat(4, 5)),
      star_angular_speed |-> angular_speed(1),
      planet_angular_speed |-> angular_speed(10),
      linspace_start |-> start,
      linspace_stop |-> stop,
      linspace_step |-> FDiv(FSub(stop, start), FromInt(num_frames - 1))]

\* numpy.linspace(start, stop, num_frames)[idx]
source_apparent_x_trajectory(e, idx) ==
  IF idx = num_frames - 1 THEN e.linspace_stop
  ELSE FAdd(FMul(FromInt(idx), e.linspace_step), e.linspace_start)

(***************************************************************************)
(* run_simulation, lines 204-248: the body of the frame loop for index idx *)
(***************************************************************************)
star_orbit_angle_carried(e, idx) ==
  IF cur = None THEN Zero ELSE FAdd(cur.star_orbit_angle, e.star_angular_speed)

star_orbit_angle(e, idx) == FMul(e.star_angular_speed, FromInt(idx))

combine_sum(a_bh, a_star, a_planet) ==
  PyMin(FAdd(FAdd(a_bh, a_star), a_planet), GlobalCeiling)

combine_unclamped(a_bh, a_star, a_planet) == FMul(FMul(a_bh, a_star), a_planet)

final_magnification(a_bh, a_star, a_planet) ==
  PyMin(FMul(FMul(a_bh, a_star), a_planet), GlobalCeiling)

frame(cf, e, idx) ==
  LET unit == e.sim_unit_m_per_plotly_unit
      angle_s == star_orbit_angle(e, idx)
      star_x == FMul(FDiv(cf.bh_star_distance_m, unit), FCos(angle_s))
      star_y == FMul(FDiv(cf.bh_star_distance_m, unit), FSin(angle_s))
      angle_p == FMul(e.planet_angular_speed, FromInt(idx))
      planet_x == FAdd(star_x,
                       FMul(FDiv(cf.planet_star_distance_m, unit), FCos(angle_p)))
      planet_y == FAdd(star_y,
                       FMul(FDiv(cf.planet_star_distance_m, unit), FSin(angle_p)))
      src_x == source_apparent_x_trajectory(e, idx)
      u_bh == FDiv(FSqrt(FAdd(FMul(src_x, src_x), FMul(e.source_y, e.source_y))),
                   FDiv(e.einstein_radius_bh_m, unit))
      u_star == FDiv(FAbs(FSub(star_x, src_x)),
                     FDiv(e.einstein_radius_star_m, unit))
      u_planet == FDiv(FAbs(FSub(planet_x, src_x)),
                       FDiv(e.einstein_radius_planet_m, unit))
      a_bh == calculate_magnification_point_lens(u_bh)
      a_star == calculate_magnification_point_lens(u_star)
      a_planet == calculate_magnification_point_lens(u_planet)
  IN [k |-> "frame", i |-> idx,
      star_orbit_angle |-> angle_s,
      current_star_x_bh_centered |-> star_x,
      current_star_y_bh_centered |-> star_y,
      current_planet_x_bh_centered |-> planet_x,
      current_planet_y_bh_centered |-> planet_y,
      current_apparent_source_x |-> src_x,
      u_bh |-> u_bh, u_star_microlens |-> u_star, u_planet_microlens |-> u_planet,
      magnification_bh |-> a_bh, perturbation_star |-> a_star,
      perturbation_planet |-> a_planet,
      final_magnification |-> final_magnification(a_bh, a_star, a_planet)]

prepend_value(list, v) == <<v>> \o list

append_value(list, v) == Append(list, v)

(***************************************************************************)
(* A call of run_simulation.                                               *)
(***************************************************************************)
Init ==
  /\ pc = "setup"
  /\ cfg \in Configs
  /\ env = None
  /\ i = 0
  /\ cur = None
  /\ magnification_data_list = <<>>
  /\ graph = None
  /\ probe = None
  /\ lens_u = <<Zero, Zero>>
  /\ lens_out = None

\* lines 138-202
Setup ==
  /\ pc = "setup"
  /\ env' = setup(cfg)
  /\ pc' = "loop"
  /\ UNCHANGED <<cfg, i, cur, magnification_data_list, graph, probe,
                 lens_u, lens_out>>

\* one iteration of the loop of line 204
Frame ==
  /\ pc = "loop"
  /\ i < num_frames
  /\ LET f == frame(cfg, env, i)
     IN /\ cur' = f
        /\ magnification_data_list' =
             append_value(magnification_data_list, f.final_magnification)
  /\ i' = i + 1
  /\ UNCHANGED <<pc, cfg, env, graph, probe, lens_u, lens_out>>

\* lines 384-387
Finish ==
  /\ pc = "loop"
  /\ i = num_frames
  /\ graph' = [time_points |-> num_frames,
               magnification |-> Len(magnification_data_list)]
  /\ pc' = "done"
  /\ UNCHANGED <<cfg, env, i, cur, magnification_data_list, probe,
                 lens_u, lens_out>>

\* the loop body evaluated for one index from the configuration alone,
\* at any moment of the run
Probe ==
  /\ pc = "loop"
  /\ \E j \in ProbeFrames : probe' = frame(cfg, env, j)
  /\ UNCHANGED <<pc, cfg, env, i, cur, magnification_data_list, graph,
                 lens_u, lens_out>>

Next == Setup \/ Frame \/ Finish \/ Probe

Spec == Init /\ [][Next]_vars

(***************************************************************************)
(* calculate_magnification_point_lens called on its own, for two           *)
(* arguments drawn from a grid of impact parameters.                       *)
(***************************************************************************)
UGrid == {Zero, FRat(1, 100000), FRat(1, 20000), FRat(9, 100000),
          FRat(1, 10000), FRat(2, 10000), FRat(1, 1000), FRat(4, 1000),
          FRat(1, 100), FRat(1, 10), FRat(1, 2), FromInt(1), FromInt(2),
          FromInt(3)}

InitLens ==
  /\ pc = "lens_call"
  /\ lens_u \in UGrid \X UGrid
  /\ lens_out = None
  /\ cfg = None
  /\ env = None
  /\ i = 0
  /\ cur = None
  /\ magnification_data_list = <<>>
  /\ graph = None
  /\ probe = None

LensCall ==
  /\ pc = "lens_call"
  /\ lens_out' = <<point_lens(lens_u[1]), point_lens(lens_u[2])>>
  /\ pc' = "lens_ret"
  /\ UNCHANGED <<cfg, env, i, cur, magnification_data_list, graph, probe,
                 lens_u>>

NextLens == LensCall

SpecLens == InitLens /\ [][NextLens]_vars

(***************************************************************************)
(* The setup of run_simulation for every significand of the black-hole     *)
(* mass, at two exponents of opposite parity.                              *)
(***************************************************************************)
ScaleConfigs ==
  {[bh_mass_kg |-> Fin(1, m, e), star_mass_kg |-> Lit(1, 30),
    planet_mass_kg |-> Lit(1, 25),
    bh_star_distance_m |-> d[1], planet_star_distance_m |-> d[2]] :
     m \in MLo .. (MHi - 1), e \in {100, 111}, d \in Distances}

InitScale ==
  /\ pc = "setup"
  /\ cfg \in ScaleConfigs
  /\ env = None
  /\ i = 0
  /\ cur = None
  /\ magnification_data_list = <<>>
  /\ graph = None
  /\ probe = None
  /\ lens_u = <<Zero, Zero>>
  /\ lens_out = None

NextScale == Setup

SpecScale == InitScale /\ [][NextScale]_vars

(***************************************************************************)
(* Properties.                                                             *)
(***************************************************************************)
Positive(a) == FLt(Zero, a)

\* positive masses and non-negative orbit distances
ValidConfig ==
  /\ cfg # None
  /\ Positive(cfg.bh_mass_kg)
  /\ Positive(cfg.star_mass_kg)
  /\ Positive(cfg.planet_mass_kg)
  /\ FLe(Zero, cfg.bh_star_distance_m)
  /\ FLe(Zero, cfg.planet_star_distance_m)

LastProduct ==
  FMul(FMul(cur.magnification_bh, cur.perturbation_star),
       cur.perturbation_planet)

\* C1: the magnification appended for a frame is min(A_bh * A_star *
\* A_planet, 500.0), the three factors being the values the point-lens
\* function returns for the frame's three impact parameters.
C1_ProductThenCeiling ==
  cur # None =>
    /\ cur.magnification_bh = calculate_magnification_point_lens(cur.u_bh)
    /\ cur.perturbation_star =
         calculate_magnification_point_lens(cur.u_star_microlens)
    /\ cur.perturbation_planet =
         calculate_magnification_point_lens(cur.u_planet_microlens)
    /\ magnification_data_list[cur.i + 1] = PyMin(LastProduct, GlobalCeiling)

\* a frame whose product exceeds the ceiling has been appended
C1_Witness ==
  /\ cur # None
  /\ FLt(GlobalCeiling, LastProduct)
  /\ magnification_data_list[cur.i + 1] = GlobalCeiling

\* C2: for 0 <= u < 1e-4, u = 0 included, the point-lens function returns
\* exactly 200.0 and does not execute the division by u.
C2_BelowFloorReturnsCeiling ==
  lens_out # None =>
    \A n \in {1, 2} :
      (FLe(Zero, lens_u[n]) /\ FLt(lens_u[n], LensFloor)) =>
        /\ lens_out[n].ret = LensCeiling
        /\ IsFin(lens_out[n].ret)
        /\ ~lens_out[n].divided

\* the function has returned for u = 0 and for a positive u below the floor
C2_Witness ==
  /\ lens_out # None
  /\ lens_u[1] = Zero
  /\ Positive(lens_u[2]) /\ FLt(lens_u[2], LensFloor)

C4_StrictlyDecreasingEverywhere ==
  (lens_out # None /\ Positive(lens_u[1]) /\ FLt(lens_u[1], lens_u[2])) =>
    FLt(lens_out[2].ret, lens_out[1].ret)

\* C4 amended: for 1e-4 <= u1 < u2 the value returned for u1 is greater
\* than the value returned for u2; for 0 < u1 < u2 < 1e-4 both calls
\* return the same constant.
C4_DecreasingAboveFloor ==
  (lens_out # None /\ Positive(lens_u[1]) /\ FLt(lens_u[1], lens_u[2])) =>
    /\ FLe(LensFloor, lens_u[1]) => FLt(lens_out[2].ret, lens_out[1].ret)
    /\ FLt(lens_u[2], LensFloor) => lens_out[2].ret = lens_out[1].ret

\* both calls have returned for a pair starting exactly at the floor
C4_Witness ==
  /\ lens_out # None
  /\ lens_u[1] = LensFloor
  /\ FLt(lens_u[1], lens_u[2])
  /\ lens_out[1].divided /\ lens_out[2].divided

\* C5: for every u >= 0 the point-lens function returns at most 200.0.
C5_LensAtMostCeiling ==
  lens_out # None =>
    \A n \in {1, 2} :
      FLe(Zero, lens_u[n]) => FLe(lens_out[n].ret, LensCeiling)

\* C6: with a non-positive mass run_simulation is rejected before the frame
\* loop: it never enters the loop and appends nothing.
C6_InvalidMassRejectedAtSetup ==
  (\/ ~Positive(cfg.bh_mass_kg)
   \/ ~Positive(cfg.star_mass_kg)
   \/ ~Positive(cfg.planet_mass_kg)) =>
    /\ pc = "setup"
    /\ magnification_data_list = <<>>

Tolerance == Fin(1, MLo, -(MantBits - 1) - (MantBits - 3))
Close(a, b, scale) == FLe(FAbs(FSub(a, b)), FMul(Tolerance, FAbs(scale)))

star_orbit_radius == FDiv(cfg.bh_star_distance_m, env.sim_unit_m_per_plotly_unit)

\* C8 as stated: the star is at (radius, 0) at frame 0 and has returned to
\* (radius, 0) at frame num_frames / 2.
C8_BackAtStartAtHalfRun ==
  (ValidConfig /\ cur # None /\ cur.i \in {0, num_frames \div 2}) =>
    /\ Close(cur.current_star_x_bh_centered, star_orbit_radius, star_orbit_radius)
    /\ Close(cur.current_star_y_bh_centered, Zero, star_orbit_radius)

\* C8 amended: the star is at (radius, 0) at frame 0 and at (-radius, 0),
\* within tolerance, at frame num_frames / 2.
C8_OppositeAtHalfRun ==
  (ValidConfig /\ cur # None) =>
    /\ cur.i = 0 =>
         /\ cur.current_star_x_bh_centered = star_orbit_radius
         /\ cur.current_star_y_bh_centered = Zero
    /\ cur.i = num_frames \div 2 =>
         /\ Close(cur.current_star_x_bh_centered, FNeg(star_orbit_radius),
                  star_orbit_radius)
         /\ Close(cur.current_star_y_bh_centered, Zero, star_orbit_radius)

\* frame num_frames / 2 of a run with a positive orbit radius
C8_Witness ==
  /\ ValidConfig /\ cur # None
  /\ cur.i = num_frames \div 2
  /\ Positive(star_orbit_radius)

C10_Inv ==
  /\ Len(magnification_data_list) = i
  /\ cur # None =>
       /\ cur.i = i - 1
       /\ magnification_data_list[cur.i + 1] = cur.final_magnification
  /\ pc = "done" =>
       /\ Len(magnification_data_list) = num_frames
       /\ graph.magnification = graph.time_points

C10_Step ==
  /\ Len(magnification_data_list') >= Len(magnification_data_list)
  /\ \A n \in 1 .. Len(magnification_data_list) :
       magnification_data_list'[n] = magnification_data_list[n]

\* C10: after k iterations the series holds k values, the value at position
\* i is the one computed for frame i, an appended value is never changed or
\* removed, and at the end the series has num_frames values, the length of
\* time_points.
C10_SeriesBuiltInOrder == []C10_Inv /\ [][C10_Step]_vars

\* a valid run has ended and handed the series to the graph
C10_Witness ==
  /\ pc = "done"
  /\ ValidConfig
  /\ graph.magnification = num_frames

====
